---- MODULE Spec2Model ----
(***************************************************************************)
(* Order creation, order numbering and denormalised user statistics of    *)
(* the shop backend (controllers/order.ts, models/order.ts,               *)
(* models/user.ts), of its sessions: login, register, logout, token      *)
(* refresh (controllers/auth.ts) and the auth and role guard middlewares  *)
(* (middlewares/validations.ts), and of its accounts: passwords, roles,   *)
(* the ownership guard, the user updates (controllers/customers.ts) and   *)
(* the order reads that join the customer; and of the catalogue as        *)
(* updateProduct changes it (controllers/products.ts).                    *)
(*                                                                         *)
(* The persistent store is the state: the product catalogue, the counter  *)
(* collection, the order collection (in natural order) and the user       *)
(* records.  Every request is a slot of `req`; a handler is cut into one  *)
(* action per round trip to the store (each `await`), because the code    *)
(* between two awaits runs without interleaving on the event loop.        *)
(***************************************************************************)
EXTENDS Integers, Sequences, FiniteSets, TLC

(* ------------------------------ bounds --------------------------------- *)
MaxReq == 2            \* number of requests the environment issues
MaxInitOrders == 1     \* orders the store may already hold at start
MaxAuthReq == 2        \* number of session and guarded requests issued
MaxTime == 2           \* the clock of jsonwebtoken runs from 0 to MaxTime

(* ---------------------------- value domains ---------------------------- *)
NULL == 0 - 1          \* JavaScript null (price, lastOrder, lastOrderDate)
NoResponse == 0        \* the request has not been answered yet
OK == 200
BadRequest == 400
NotFound == 404
ServerError == 500     \* error-handler.ts: an error without statusCode
CreatedStatus == 201
Unauthorized == 401
Forbidden == 403
Conflict == 409

Users == {"u1", "u2"}
Reqs == 1 .. MaxReq
InitIds == 1 .. MaxInitOrders

\* models/order.ts StatusType
StatusType == {"cancelled", "completed", "new", "delivering"}
StatusInputs == {"delivering", "cancelled", "bogus"}  \* request bodies tried

\* the catalogue: p1 and p2 are for sale, p3 is not (price null); p9 is an
\* id that names no product
ProductIds == {"p1", "p2", "p3"}
InitProducts == [p \in ProductIds |->
                   IF p = "p1" THEN 10 ELSE IF p = "p2" THEN 20 ELSE NULL]

ABSENT == <<"absent">>  \* request body without an `items` key
OrderBodies ==
  { [items |-> <<"p1", "p2">>, total |-> 30],
    [items |-> <<"p1", "p2">>, total |-> 25],
    [items |-> <<"p3">>, total |-> 0],
    [items |-> <<"p1", "p9">>, total |-> 10],
    [items |-> ABSENT, total |-> 0] }

StatFields == {"totalAmount", "orderCount", "lastOrderDate", "lastOrder"}

\* models/user.ts schema defaults of the four statistics
ZeroStats == [totalAmount |-> 0, orderCount |-> 0,
              lastOrderDate |-> NULL, lastOrder |-> NULL]

VARIABLES products, counters, orders, users, req, clock, epoch,
          accounts, areq, seconds, handed

\* the order side and the session side of the state
orderVars == <<products, counters, orders, users, req, clock, epoch>>
authVars == <<accounts, areq, seconds, handed>>

vars == <<products, counters, orders, users, req, clock, epoch,
          accounts, areq, seconds, handed>>

(* ------------------------------ helpers -------------------------------- *)
RECURSIVE SumSeq(_)
SumSeq(s) == IF s = <<>> THEN 0 ELSE Head(s) + SumSeq(Tail(s))

RECURSIVE MaxSeq(_)
MaxSeq(s) == IF Len(s) = 1 THEN s[1]
             ELSE LET m == MaxSeq(Tail(s)) IN IF s[1] > m THEN s[1] ELSE m

Range(s) == {s[i] : i \in 1 .. Len(s)}

RemoveId(s, id) == SelectSeq(s, LAMBDA x : x # id)

Stats(u) == [f \in StatFields |-> u[f]]

(* --------------------- controllers/order.ts createOrder ---------------- *)
\* the forEach over `items`: the first item that names no product or a
\* product whose price is null throws; then the basket total is compared
\* with the declared total.  Without an `items` key forEach is called on
\* undefined and throws a TypeError.
RECURSIVE ResolveItems(_, _)
ResolveItems(prods, items) ==
  IF items = <<>> THEN "ok"
  ELSE IF Head(items) \notin DOMAIN prods THEN "unknown"
  ELSE IF prods[Head(items)] = NULL THEN "notForSale"
  ELSE ResolveItems(prods, Tail(items))

BasketTotal(prods, items) ==
  SumSeq([i \in 1 .. Len(items) |-> prods[items[i]]])

CheckBasket(prods, body) ==
  IF body.items = ABSENT THEN "typeError"
  ELSE LET r == ResolveItems(prods, body.items) IN
       IF r # "ok" THEN r
       ELSE IF BasketTotal(prods, body.items) # body.total THEN "badTotal"
       ELSE "ok"

\* save() without the validation of the document
createOutcomeUnvalidated(prods, body, valid) == CheckBasket(prods, body)

\* what createOrder meets before its first write: the basket checks, then
\* the validation of the document, which save() runs before the pre-save
\* hooks; `valid` says whether the schema validators accept the document
createOutcome(prods, body, valid) ==
  LET check == CheckBasket(prods, body) IN
  IF check # "ok" THEN check
  ELSE IF ~valid THEN "validationError"
  ELSE "ok"

\* the catch block of createOrder and the error handler: a BadRequestError
\* keeps its 400, a ValidationError is turned into one, any other error is
\* answered 500
CreateErrorStatus(check) ==
  IF check \in {"unknown", "notForSale", "badTotal", "validationError"}
  THEN BadRequest
  ELSE ServerError

(* ------------------ models/order.ts incrementOrderNumber --------------- *)
\* Counter.findOneAndUpdate({}, {$inc: {sequenceValue: 1}}, {new: true})
\* on a collection that holds a document: the first document in natural
\* order is incremented atomically
IncCounter(cs) == [cs EXCEPT ![1] = @ + 1]

\* the upsert half: the query matched nothing, so a document is inserted
\* with the $inc applied to an absent field
UpsertCounter(cs) == Append(cs, 1)

(* ------------------ models/user.ts calculateOrderStats ----------------- *)
\* the aggregation: $match {customer}, $group with $sum, $max, $sum 1 and
\* $last over the matching orders in natural order; the result array is
\* empty when nothing matches
\* an aggregation that leaves cancelled orders out
AggregateStatsLive(ords, u) ==
  LET m == SelectSeq(ords, LAMBDA o : o.customer = u /\ o.status # "cancelled") IN
  IF m = <<>> THEN <<>>
  ELSE << [totalAmount |-> SumSeq([i \in 1 .. Len(m) |-> m[i].totalAmount]),
           lastOrderDate |-> MaxSeq([i \in 1 .. Len(m) |-> m[i].createdAt]),
           orderCount |-> Len(m),
           lastOrder |-> m[Len(m)].id] >>

AggregateStats(ords, u) ==
  LET m == SelectSeq(ords, LAMBDA o : o.customer = u) IN
  IF m = <<>> THEN <<>>
  ELSE << [totalAmount |-> SumSeq([i \in 1 .. Len(m) |-> m[i].totalAmount]),
           lastOrderDate |-> MaxSeq([i \in 1 .. Len(m) |-> m[i].createdAt]),
           orderCount |-> Len(m),
           lastOrder |-> m[Len(m)].id] >>

\* a recomputation that adds to the loaded values instead of replacing them
AssignStatsAdding(doc, orderStats) ==
  IF Len(orderStats) > 0
  THEN [totalAmount |-> doc.totalAmount + orderStats[1].totalAmount,
        orderCount |-> doc.orderCount + orderStats[1].orderCount,
        lastOrderDate |-> orderStats[1].lastOrderDate,
        lastOrder |-> orderStats[1].lastOrder]
  ELSE [totalAmount |-> 0, orderCount |-> 0,
        lastOrderDate |-> NULL, lastOrder |-> NULL]

\* the assignments to the loaded user document
AssignStats(doc, orderStats) ==
  IF Len(orderStats) > 0
  THEN [totalAmount |-> orderStats[1].totalAmount,
        orderCount |-> orderStats[1].orderCount,
        lastOrderDate |-> orderStats[1].lastOrderDate,
        lastOrder |-> orderStats[1].lastOrder]
  ELSE [totalAmount |-> 0, orderCount |-> 0,
        lastOrderDate |-> NULL, lastOrder |-> NULL]

\* user.save(): the document tracks modified paths; only a path whose
\* assigned value differs from the loaded one is written ($set), and the
\* ids pushed onto `orders` are written with $push
SaveUser(stored, loaded, doc, pushed) ==
  [f \in DOMAIN stored |->
     IF f = "orders" THEN stored.orders \o pushed
     ELSE IF doc[f] # loaded[f] THEN doc[f] ELSE stored[f]]

(* ------------------ controllers/order.ts updateOrder ------------------- *)
\* an update that lets the request renumber the order
SetStatusRenumbering(o, status) ==
  [o EXCEPT !.status = status, !.orderNumber = @ + 1]

\* findOneAndUpdate({orderNumber}, {status}, {runValidators: true})
SetStatus(o, status) == [o EXCEPT !.status = status]

\* new Order({...}) as first persisted: default status, the number handed
\* out by the pre-save hook, createdAt from the timestamps option
NewOrder(id, num, body, u, created) ==
  [id |-> id, orderNumber |-> num, status |-> "new",
   totalAmount |-> body.total, customer |-> u, createdAt |-> created]

(* ============================== sessions =============================== *)
(* ------------------------- config (ACCESS_TOKEN, REFRESH_TOKEN) -------- *)
\* the two signing secrets come from the environment; they are taken to
\* differ.  OtherSecret signs what the server never signed.
AccessSecret == "AUTH_ACCESS_TOKEN_SECRET"
RefreshSecret == "AUTH_REFRESH_TOKEN_SECRET"
OtherSecret == "not a secret of the server"

\* the expiry of the two tokens, in ticks of the clock
AccessLife == 1
RefreshLife == 2

Role == {"customer", "admin"}
AReqs == 1 .. MaxAuthReq

(* --------------------------------- bcrypt ------------------------------ *)
\* what a client types, and what the password path of a user document can
\* hold: the text as typed, or its bcrypt hash
Passwords == {"pw1", "pw2"}

Plain(pw) == [alg |-> "plain", text |-> pw]

\* bcrypt.hash(password, saltRounds)
bcryptHash(pw) == [alg |-> "bcrypt", text |-> pw]

\* bcrypt.compare(password, stored): true only for a hash of that password
bcryptCompare(pw, stored) == stored = bcryptHash(pw)

\* the password path left out of a document or of a response
Omitted == [alg |-> "omitted", text |-> ""]

(* ------------------------------ jsonwebtoken --------------------------- *)
\* jwt.sign(payload, secret, {expiresIn, subject}): the token is a function
\* of subject, secret and the second it is signed in (iat, exp); nothing
\* else enters it, so two tokens signed for one user with one secret in the
\* same second are the same string
JwtSign(sub, secret, life, t) ==
  [sub |-> sub, iat |-> t, exp |-> t + life, key |-> secret]

\* a verification that never looks at the expiry
JwtVerifyAnyAge(tok, secret, t) ==
  IF tok.key # secret THEN "JsonWebTokenError" ELSE "ok"

\* jwt.verify(token, secret): the signature first, then the expiry
JwtVerify(tok, secret, t) ==
  IF tok.key # secret THEN "JsonWebTokenError"
  ELSE IF t >= tok.exp THEN "TokenExpiredError"
  ELSE "ok"

NoToken == [sub |-> "none", iat |-> 0, exp |-> 0, key |-> "none"]
EmptyValue == [sub |-> "", iat |-> 0, exp |-> 0, key |-> ""]

\* a refresh cookie and a bearer token that the server did not sign
ForgedRefresh == JwtSign("u1", OtherSecret, RefreshLife, 0)
ForgedAccess == JwtSign("u1", OtherSecret, AccessLife, 0)

(* ------------------------------ models/user.ts ------------------------- *)
generateAccessToken(u, t) == JwtSign(u, AccessSecret, AccessLife, t)

\* the jwt.sign of generateRefreshToken
SignRefreshToken(u, t) == JwtSign(u, RefreshSecret, RefreshLife, t)

\* crypto.createHmac('sha256', secret).update(token).digest('hex')
Hmac(secret, tok) == [hmac |-> secret, of |-> tok]

\* what generateRefreshToken stores for a token
IssueFingerprint(tok) == Hmac(RefreshSecret, tok)

\* a generateRefreshToken that stores the token itself
PushRawToken(tokens, tok) == Append(tokens, tok)

\* user.tokens.push({token: rTknHash}); user.save() sends it as a $push
PushToken(tokens, tok) == Append(tokens, IssueFingerprint(tok))

(* ------------------ controllers/auth.ts deleteRefreshTokenInUser ------- *)
\* the hash computed for the presented cookie
RevokeFingerprint(tok) == Hmac(RefreshSecret, tok)

\* a filter that empties the list
FilterAllTokens(tokens, tok) == SelectSeq(tokens, LAMBDA x : FALSE)

\* user.tokens.filter((tokenObj) => tokenObj.token !== rTknHash)
FilterTokens(tokens, tok) ==
  SelectSeq(tokens, LAMBDA x : x # RevokeFingerprint(tok))

\* user.save() after the assignment of the filtered list: the path is
\* written ($set of the whole list) only when the assigned list differs
\* from the loaded one
SaveTokens(stored, loaded, kept) == IF kept # loaded THEN kept ELSE stored

(* ------------------------------- errors -------------------------------- *)
\* an error object: its class, its statusCode (NULL when it has none) and
\* its message
NoError == [name |-> "", statusCode |-> NULL, message |-> ""]

UnauthorizedError(msg) ==
  [name |-> "UnauthorizedError", statusCode |-> Unauthorized, message |-> msg]

ForbiddenError(msg) ==
  [name |-> "ForbiddenError", statusCode |-> Forbidden, message |-> msg]

NotFoundError(msg) ==
  [name |-> "NotFoundError", statusCode |-> NotFound, message |-> msg]

ConflictError(msg) ==
  [name |-> "ConflictError", statusCode |-> Conflict, message |-> msg]

BadRequestError(msg) ==
  [name |-> "BadRequestError", statusCode |-> BadRequest, message |-> msg]

\* what jwt.verify throws: JsonWebTokenError or TokenExpiredError, neither
\* with a statusCode
JwtError(name) ==
  [name |-> name, statusCode |-> NULL,
   message |-> IF name = "TokenExpiredError" THEN "jwt expired"
               ELSE "invalid signature"]

\* what save() throws when the document is no longer in the collection
DocumentNotFoundError ==
  [name |-> "DocumentNotFoundError", statusCode |-> NULL,
   message |-> "No document found for query"]

GenericMessage == "server error"           \* 'На сервере произошла ошибка'

\* a handler that sends the message of every error
errorHandlerLeaking(err) ==
  [status |-> IF err.statusCode \in {NULL, 0} THEN ServerError
              ELSE err.statusCode,
   message |-> err.message]

\* middlewares/error-handler.ts: err.statusCode || 500, then the message
errorHandler(err) ==
  LET statusCode == IF err.statusCode \in {NULL, 0} THEN ServerError
                    ELSE err.statusCode IN
  [status |-> statusCode,
   message |-> IF statusCode = ServerError THEN GenericMessage
               ELSE err.message]

(* ------------------ middlewares/validations.ts auth -------------------- *)
NoHeader == [scheme |-> "none", token |-> NoToken]
Bearer(tok) == [scheme |-> "Bearer", token |-> tok]
BasicHeader == [scheme |-> "Basic", token |-> NoToken]

\* a catch block with one message for every verification failure
AuthCatchOneMessage(name) == UnauthorizedError("authorization required")

\* the catch block of auth
AuthCatch(name) ==
  IF name = "TokenExpiredError"
  THEN UnauthorizedError("token expired")    \* 'Истек срок действия токена'
  ELSE UnauthorizedError("authorization required")  \* 'Необходима авторизация'

(* ------------- middlewares/validations.ts roleGuardMiddleware ---------- *)
\* a guard that looks for a user but not at the roles
roleGuardAnyRole(hasUser, userRoles, roles) ==
  IF ~hasUser THEN UnauthorizedError("authorization required")
  ELSE NoError

\* res.locals.user, roles.some(includes); NoError stands for next()
roleGuardMiddleware(hasUser, userRoles, roles) ==
  IF ~hasUser THEN UnauthorizedError("authorization required")
  ELSE IF ~(\E role \in roles : role \in userRoles)
  THEN ForbiddenError("access denied")         \* 'Доступ запрещен'
  ELSE NoError

\* how a route is mounted: behind auth or not, behind a role guard or not
Routes ==
  { [auth |-> TRUE, guard |-> FALSE, roles |-> {}],
    [auth |-> TRUE, guard |-> TRUE, roles |-> {"admin"}],
    [auth |-> FALSE, guard |-> TRUE, roles |-> {"admin"}] }

(* --------------------------- session state ----------------------------- *)
NoCookie == [value |-> NoToken, maxAge |-> 0]      \* no Set-Cookie header

\* the string a bcrypt hash is, where it is itself typed or hashed
HashString(pw) ==
  IF pw = "pw1" THEN "$2b$10$(pw1)"
  ELSE IF pw = "pw2" THEN "$2b$10$(pw2)"
  ELSE "$2b$10$(other)"

\* a pre-save hook that hashes what the password path holds on every save
hashingPasswordAlways(isModified, password) ==
  bcryptHash(IF password.alg = "bcrypt" THEN HashString(password.text)
             ELSE password.text)

\* the pre-save hook of the user schema: the password is hashed when its
\* path is modified, and left as it is otherwise
hashingPassword(isModified, password) ==
  IF isModified THEN bcryptHash(password.text) ELSE password

\* a user document as register inserts it: schema default of roles, no
\* token, the password as the pre-save hook leaves it
NewUser(pw) ==
  [state |-> "present", roles |-> {"customer"}, tokens |-> <<>>,
   password |-> hashingPassword(TRUE, Plain(pw))]

NoUser == [state |-> "absent", roles |-> {}, tokens |-> <<>>,
           password |-> Omitted]

DeletedUser == [state |-> "deleted", roles |-> {}, tokens |-> <<>>,
                password |-> Omitted]

\* a user who registered with the password pw1, logged in at time 0 and
\* holds the two tokens of that login
LoggedIn(u, r) ==
  [state |-> "present", roles |-> r,
   tokens |-> PushToken(<<>>, SignRefreshToken(u, 0)),
   password |-> bcryptHash("pw1")]

(* ------------------- user documents in queries and responses ---------- *)
UserPaths == {"_id", "email", "password", "roles", "tokens"}

\* a user document in memory: the paths it holds and, if the password path
\* is among them, its value
RawUser(u, stored) ==
  [id |-> u, paths |-> UserPaths, password |-> stored.password]

\* a query without .select('+password'): the schema says select: false
SelectDefault(doc) ==
  [doc EXCEPT !.paths = @ \ {"password"}, !.password = Omitted]

\* the toJSON transform of the user schema
toJSON(doc) ==
  [doc EXCEPT !.paths = @ \ {"tokens", "password", "_id", "roles"},
              !.password = Omitted]

\* the body of an update request: the paths it names and their values
NoBody == [paths |-> {}, password |-> Omitted, roles |-> {}]

IdleAuthReq ==
  [op |-> "none", pc |-> "idle", resp |-> NoResponse, message |-> "",
   user |-> "none", cookie |-> NoToken, header |-> NoHeader,
   route |-> [auth |-> FALSE, guard |-> FALSE, roles |-> {}],
   tok |-> NoToken, access |-> NoToken, loaded |-> <<>>, kept |-> <<>>,
   setCookie |-> NoCookie, locals |-> "none", ctl |-> FALSE, solo |-> FALSE,
   err |-> NoError, body |-> {}, upd |-> NoBody, num |-> 0,
   entity |-> "none"]

\* no session request is made yet: u1 is the administrator the shop starts
\* with, logged in at time 0; nobody else has registered
AuthIdle ==
  /\ accounts = [u \in Users |->
                   IF u = "u1" THEN LoggedIn(u, {"admin"}) ELSE NoUser]
  /\ handed = {SignRefreshToken("u1", 0), generateAccessToken("u1", 0)}
  /\ areq = [r \in AReqs |-> IdleAuthReq]
  /\ seconds = 0

(* ------------------------------- state --------------------------------- *)
NewId(r) == MaxInitOrders + r       \* the ObjectId of the order of request r
OrderIds == 1 .. (MaxInitOrders + MaxReq)
OrderNumbers == 1 .. (MaxInitOrders + MaxReq)

IdleReq == [op |-> "none", pc |-> "idle", resp |-> NoResponse, user |-> "u1",
            body |-> [items |-> <<>>, total |-> 0], num |-> 0, oid |-> 0,
            created |-> 0, loaded |-> ZeroStats, doc |-> ZeroStats,
            pushed |-> <<>>, ep |-> 0, after |-> FALSE, valid |-> TRUE]

\* the store at start: empty, or holding orders that u1 created earlier
\* one after the other (numbers 1..n, statistics and order list in step)
InitOrder(k) == NewOrder(k, k, [items |-> <<"p1">>, total |-> 10], "u1", k)

InitUser(u, n) ==
  IF u = "u1" /\ n > 0
  THEN [totalAmount |-> 10 * n, orderCount |-> n, lastOrderDate |-> n,
        lastOrder |-> n, orders |-> [k \in 1 .. n |-> k]]
  ELSE [totalAmount |-> 0, orderCount |-> 0, lastOrderDate |-> NULL,
        lastOrder |-> NULL, orders |-> <<>>]

Init ==
  \E n \in 0 .. MaxInitOrders :
    /\ products = InitProducts
    /\ counters = IF n = 0 THEN <<>> ELSE <<n>>
    /\ orders = [k \in 1 .. n |-> InitOrder(k)]
    /\ users = [u \in Users |-> InitUser(u, n)]
    /\ req = [r \in Reqs |-> IdleReq]
    /\ clock = n
    /\ epoch = 0
    /\ AuthIdle

\* requests are taken from the pool in order
CanStart(r) ==
  /\ req[r].pc = "idle"
  /\ \A s \in Reqs : s < r => req[s].pc # "idle"

\* a finished request keeps what it was asked and what it answered
Finish(q, status) == [q EXCEPT !.pc = "done", !.resp = status, !.created = 0,
                               !.loaded = ZeroStats, !.pushed = <<>>]

(* ------------------------------ createOrder ---------------------------- *)
\* Product.find({}), the basket checks, new Order(...), populate and the
\* call of save(), which stamps createdAt
CreateOrder(r, u, body, valid) ==
  /\ CanStart(r)
  /\ LET check == createOutcome(products, body, valid)
         \* the validators run only on a basket that passed the checks
         accepted == valid \/ CheckBasket(products, body) # "ok"
         q == [req[r] EXCEPT !.op = "create", !.user = u, !.body = body,
                             !.valid = accepted]
         e == [req[r] EXCEPT !.op = "create", !.body = body,
                             !.valid = accepted]
     IN IF check = "ok"
        THEN /\ clock' = clock + 1
             /\ req' = [req EXCEPT ![r] = [q EXCEPT !.pc = "number",
                                                    !.oid = NewId(r),
                                                    !.created = clock + 1]]
        ELSE /\ clock' = clock
             /\ req' = [req EXCEPT ![r] = Finish(e, CreateErrorStatus(check))]
  /\ UNCHANGED <<products, counters, orders, users, epoch, authVars>>

\* pre-save hook: the counter document exists and is incremented, or the
\* query of the upsert finds the collection empty
IncrementOrderNumber(r) ==
  /\ req[r].pc = "number"
  /\ IF counters # <<>>
     THEN /\ counters' = IncCounter(counters)
          /\ req' = [req EXCEPT ![r].pc = "insert", ![r].num = counters'[1]]
     ELSE /\ counters' = counters
          /\ req' = [req EXCEPT ![r].pc = "upsert"]
  /\ UNCHANGED <<products, orders, users, clock, epoch, authVars>>

\* the insert of the upsert: nothing but _id is unique in the counter
\* collection, so the insert succeeds whatever has been inserted meanwhile
UpsertOrderNumber(r) ==
  /\ req[r].pc = "upsert"
  /\ counters' = UpsertCounter(counters)
  /\ req' = [req EXCEPT ![r].pc = "insert",
                        ![r].num = counters'[Len(counters')]]
  /\ UNCHANGED <<products, orders, users, clock, epoch, authVars>>

\* the insert of the order; orderNumber carries a unique index, a
\* duplicate is a storage error that createOrder passes on unclassified
InsertOrder(r) ==
  /\ req[r].pc = "insert"
  /\ IF \E i \in 1 .. Len(orders) : orders[i].orderNumber = req[r].num
     THEN /\ req' = [req EXCEPT ![r] = Finish(@, ServerError)]
          /\ UNCHANGED <<orders, epoch>>
     ELSE /\ orders' = Append(orders, NewOrder(req[r].oid, req[r].num,
                                 req[r].body, req[r].user, req[r].created))
          /\ epoch' = epoch + 1
          /\ req' = [req EXCEPT ![r].pc = "hook"]
  /\ UNCHANGED <<products, counters, users, clock, authVars>>

\* post-save hook: User.findById, push of the order id on the loaded
\* document, calculateOrderStats() started but not awaited: save() resolves
\* and createOrder answers 200 while the recomputation is still to run
PostSaveHook(r) ==
  /\ req[r].pc = "hook"
  /\ req' = [req EXCEPT ![r].pc = "aggregate",
                        ![r].loaded = Stats(users[req[r].user]),
                        ![r].pushed = <<req[r].oid>>,
                        ![r].resp = OK]
  /\ UNCHANGED <<products, counters, orders, users, clock, epoch, authVars>>

(* --------------------------- calculateOrderStats ----------------------- *)
CalcAggregate(r) ==
  /\ req[r].pc = "aggregate"
  /\ req' = [req EXCEPT ![r].pc = "save",
                        ![r].doc = AssignStats(req[r].loaded,
                                     AggregateStats(orders, req[r].user)),
                        ![r].ep = epoch]
  /\ UNCHANGED <<products, counters, orders, users, clock, epoch, authVars>>

\* user.save(); the delete hook awaits it and deleteOrder answers then.
\* The pre-save hook of the user schema runs on this save too, on a
\* document whose password path was not touched
CalcSave(r) ==
  /\ req[r].pc = "save"
  /\ users' = [users EXCEPT ![req[r].user] =
                 SaveUser(@, req[r].loaded, req[r].doc, req[r].pushed)]
  /\ accounts' = IF accounts[req[r].user].state = "present"
                 THEN [accounts EXCEPT ![req[r].user].password =
                         hashingPassword(FALSE, @)]
                 ELSE accounts
  /\ req' = [req EXCEPT ![r] = Finish(@, OK)]
  /\ UNCHANGED <<products, counters, orders, clock, epoch, areq, seconds,
                 handed>>

(* ------------------------------ deleteOrder ---------------------------- *)
\* history: the order with this id was in the store at start, or the
\* createOrder request that made it has been answered
Answered(id) ==
  \/ id \in InitIds
  \/ \E s \in Reqs : req[s].op = "create" /\ req[s].oid = id /\ req[s].resp = OK

\* Order.findByIdAndDelete(id).orFail(NotFoundError)
DeleteOrder(r, id) ==
  /\ CanStart(r)
  /\ LET q == [req[r] EXCEPT !.op = "delete", !.oid = id]
         e == [req[r] EXCEPT !.op = "delete"] IN
     IF \E i \in 1 .. Len(orders) : orders[i].id = id
     THEN LET o == CHOOSE x \in Range(orders) : x.id = id IN
          /\ orders' = SelectSeq(orders, LAMBDA x : x.id # id)
          /\ epoch' = epoch + 1
          /\ req' = [req EXCEPT ![r] = [q EXCEPT !.pc = "pull",
                                                 !.user = o.customer,
                                                 !.after = Answered(id)]]
     ELSE /\ req' = [req EXCEPT ![r] = Finish(e, NotFound)]
          /\ UNCHANGED <<orders, epoch>>
  /\ UNCHANGED <<products, counters, users, clock, authVars>>

\* post-findOneAndDelete hook: User.findByIdAndUpdate($pull) without
\* {new: true} hands back the document as it was before the pull
PostDeleteHook(r) ==
  /\ req[r].pc = "pull"
  /\ users' = [users EXCEPT ![req[r].user].orders = RemoveId(@, req[r].oid)]
  /\ req' = [req EXCEPT ![r].pc = "aggregate",
                        ![r].loaded = Stats(users[req[r].user])]
  /\ UNCHANGED <<products, counters, orders, clock, epoch, authVars>>

(* ------------------------------ updateOrder ---------------------------- *)
\* an update without runValidators: any status is written
updateOrderUnvalidated(ords, n, status) ==
  IF \E i \in 1 .. Len(ords) : ords[i].orderNumber = n
  THEN [resp |-> OK,
        orders |-> [i \in 1 .. Len(ords) |->
                      IF ords[i].orderNumber = n
                      THEN SetStatus(ords[i], status) ELSE ords[i]]]
  ELSE [resp |-> NotFound, orders |-> ords]

\* the update validators run before the query is sent (ValidationError,
\* answered BadRequest); the query then updates the order with that
\* number, or orFail throws NotFoundError
updateOrder(ords, n, status) ==
  IF status \notin StatusType THEN [resp |-> BadRequest, orders |-> ords]
  ELSE IF \E i \in 1 .. Len(ords) : ords[i].orderNumber = n
  THEN [resp |-> OK,
        orders |-> [i \in 1 .. Len(ords) |->
                      IF ords[i].orderNumber = n
                      THEN SetStatus(ords[i], status) ELSE ords[i]]]
  ELSE [resp |-> NotFound, orders |-> ords]

UpdateOrder(r, n, status) ==
  /\ CanStart(r)
  /\ LET q == [req[r] EXCEPT !.op = "update"]
         out == updateOrder(orders, n, status) IN
     /\ req' = [req EXCEPT ![r] = Finish(q, out.resp)]
     /\ orders' = out.orders
  /\ UNCHANGED <<products, counters, users, clock, epoch, authVars>>

Next ==
  \/ \E r \in Reqs, u \in Users, body \in OrderBodies, valid \in BOOLEAN :
       CreateOrder(r, u, body, valid)
  \/ \E r \in Reqs : IncrementOrderNumber(r)
  \/ \E r \in Reqs : UpsertOrderNumber(r)
  \/ \E r \in Reqs : InsertOrder(r)
  \/ \E r \in Reqs : PostSaveHook(r)
  \/ \E r \in Reqs : CalcAggregate(r)
  \/ \E r \in Reqs : CalcSave(r)
  \/ \E r \in Reqs, id \in OrderIds : DeleteOrder(r, id)
  \/ \E r \in Reqs : PostDeleteHook(r)
  \/ \E r \in Reqs, n \in OrderNumbers, s \in StatusInputs : UpdateOrder(r, n, s)

Spec == Init /\ [][Next]_vars

(* ============================ session requests ========================= *)
\* session requests are taken from their pool in order
AuthStart(r) ==
  /\ areq[r].pc = "idle"
  /\ \A s \in AReqs : s < r => areq[s].pc # "idle"

\* no other session request is between its arrival and its end
Solo(r) == \A s \in AReqs : s # r => areq[s].pc \in {"idle", "done", "rejected"}

\* res.json / res.status(...).json: the request is answered
AuthFinish(q, status, message) ==
  [q EXCEPT !.pc = "done", !.resp = status, !.message = message,
            !.tok = NoToken, !.loaded = <<>>, !.kept = <<>>]

\* next(err): the error handler answers, with no token and no cookie
Fail(q, err) ==
  AuthFinish([q EXCEPT !.access = NoToken, !.err = err],
             errorHandler(err).status, errorHandler(err).message)

\* what a client can put in the refreshToken cookie and in the
\* Authorization header: nothing, something the server did not sign, or a
\* token the server has handed out
CookieInputs ==
  {NoToken, ForgedRefresh} \cup {t \in handed : t.key = RefreshSecret}

HeaderInputs ==
  {NoHeader, BasicHeader, Bearer(ForgedAccess)}
    \cup {Bearer(t) : t \in {x \in handed : x.key = AccessSecret}}

\* the clock of jsonwebtoken moves on
Tick ==
  /\ seconds < MaxTime
  /\ seconds' = seconds + 1
  /\ UNCHANGED <<accounts, areq, handed, orderVars>>

(* --------------------------------- login ------------------------------- *)
\* findUserByCredentials (findOne by email, bcrypt.compare), then
\* generateAccessToken and generateRefreshToken up to its save()
Login(r, u, password) ==
  /\ AuthStart(r)
  /\ LET q == [areq[r] EXCEPT !.op = "login", !.user = u, !.solo = Solo(r)]
         passwdMatch == bcryptCompare(password, accounts[u].password) IN
     areq' = [areq EXCEPT ![r] =
       IF accounts[u].state # "present" \/ ~passwdMatch
       THEN Fail(q, UnauthorizedError("wrong email or password"))
       ELSE [q EXCEPT !.pc = "push",
                      !.access = generateAccessToken(u, seconds),
                      !.tok = SignRefreshToken(u, seconds)]]
  /\ UNCHANGED <<accounts, seconds, handed, orderVars>>

(* -------------------------------- register ----------------------------- *)
\* a catch block that passes every storage error on as it is
registerCatchPassing(error) ==
  [name |-> error, statusCode |-> NULL, message |-> error]

\* the catch block of register
registerCatch(error) ==
  IF error = "ValidationError" THEN BadRequestError("validation")
  ELSE IF error = "E11000" THEN ConflictError("email in use")
  ELSE [name |-> error, statusCode |-> NULL, message |-> error]

\* newUser.save(): a validation error, a duplicate email, or the insert;
\* then the two tokens as in login
Register(r, u, valid, pw) ==
  /\ AuthStart(r)
  /\ accounts[u].state # "deleted"
  /\ LET q == [areq[r] EXCEPT !.op = "register", !.user = u,
                              !.solo = Solo(r),
                              !.upd = [paths |-> {"password"},
                                       password |-> Plain(pw),
                                       roles |-> {}]] IN
     IF ~valid
     THEN /\ areq' = [areq EXCEPT ![r] =
                       Fail(q, registerCatch("ValidationError"))]
          /\ accounts' = accounts
     ELSE IF accounts[u].state = "present"
     THEN /\ areq' = [areq EXCEPT ![r] = Fail(q, registerCatch("E11000"))]
          /\ accounts' = accounts
     ELSE /\ accounts' = [accounts EXCEPT ![u] = NewUser(pw)]
          /\ areq' = [areq EXCEPT ![r] =
               [q EXCEPT !.pc = "push",
                         !.access = generateAccessToken(u, seconds),
                         !.tok = SignRefreshToken(u, seconds)]]
  /\ UNCHANGED <<seconds, handed, orderVars>>

(* ------------------- generateRefreshToken: user.save() ----------------- *)
\* res.cookie(REFRESH_TOKEN.cookie.name, refreshToken, options) of login,
\* register and refresh: the raw token, living as long as the token
refreshCookie(tok) == [value |-> tok, maxAge |-> RefreshLife]

\* the $push of the fingerprint, then the cookie and the answer of login,
\* register or refresh; save() fails when the document is gone
PushSave(r) ==
  /\ areq[r].pc = "push"
  /\ LET q == areq[r] IN
     IF accounts[q.user].state = "present"
     THEN /\ accounts' = [accounts EXCEPT
                            ![q.user].tokens = PushToken(@, q.tok),
                            \* no save after the insert modifies the password
                            ![q.user].password = hashingPassword(FALSE, @)]
          /\ handed' = handed \cup {q.tok, q.access}
          /\ areq' = [areq EXCEPT ![r] =
               AuthFinish([q EXCEPT !.setCookie = refreshCookie(q.tok),
                                    !.body = {toJSON(RawUser(q.user,
                                                       accounts[q.user]))}],
                          IF q.op = "register" THEN CreatedStatus ELSE OK, "")]
     ELSE /\ areq' = [areq EXCEPT ![r] = Fail(q, DocumentNotFoundError)]
          /\ UNCHANGED <<accounts, handed>>
  /\ UNCHANGED <<seconds, orderVars>>

(* ---------------------- deleteRefreshTokenInUser ----------------------- *)
\* logout and refresh start alike: the cookie, jwt.verify, User.findOne and
\* the filter of the loaded list
Revoke(r, op, rfTkn) ==
  /\ AuthStart(r)
  /\ LET q == [areq[r] EXCEPT !.op = op, !.cookie = rfTkn, !.solo = Solo(r)]
         v == JwtVerify(rfTkn, RefreshSecret, seconds)
         u == rfTkn.sub IN
     areq' = [areq EXCEPT ![r] =
       IF rfTkn = NoToken THEN Fail(q, UnauthorizedError("invalid token"))
       ELSE IF v # "ok" THEN Fail(q, JwtError(v))
       ELSE IF accounts[u].state # "present"
       THEN Fail(q, UnauthorizedError("user not found"))
       ELSE [q EXCEPT !.pc = "revoke", !.user = u,
                      !.loaded = accounts[u].tokens,
                      !.kept = FilterTokens(accounts[u].tokens, rfTkn)]]
  /\ UNCHANGED <<accounts, seconds, handed, orderVars>>

\* a cookie emptied with the options of the refresh cookie as they are
expireCookieKeepingAge == [value |-> EmptyValue, maxAge |-> RefreshLife]

\* logout: res.cookie(name, '', {...options, maxAge: -1})
expireCookie == [value |-> EmptyValue, maxAge |-> 0 - 1]

\* user.save() of the filtered list; logout then clears the cookie and
\* answers, refresh signs the next pair of tokens
RevokeSave(r) ==
  /\ areq[r].pc = "revoke"
  /\ LET q == areq[r] IN
     IF accounts[q.user].state # "present"
     THEN /\ areq' = [areq EXCEPT ![r] = Fail(q, DocumentNotFoundError)]
          /\ accounts' = accounts
     ELSE /\ accounts' = [accounts EXCEPT
                            ![q.user].tokens = SaveTokens(@, q.loaded, q.kept),
                            ![q.user].password = hashingPassword(FALSE, @)]
          /\ areq' = [areq EXCEPT ![r] =
               IF q.op = "logout"
               THEN AuthFinish([q EXCEPT !.setCookie = expireCookie], OK, "")
               ELSE [q EXCEPT !.pc = "push",
                              !.access = generateAccessToken(q.user, seconds),
                              !.tok = SignRefreshToken(q.user, seconds)]]
  /\ UNCHANGED <<seconds, handed, orderVars>>

(* ------------------- auth, roleGuardMiddleware, controller ------------- *)
\* the role guard of the route, if it has one, then the controller
Guard(q) ==
  LET e == IF q.route.guard
           THEN roleGuardMiddleware(q.locals # "none",
                  IF q.locals = "none" THEN {} ELSE accounts[q.locals].roles,
                  q.route.roles)
           ELSE NoError IN
  IF e # NoError THEN Fail(q, e)
  ELSE AuthFinish([q EXCEPT !.ctl = TRUE], OK, "")

\* a request to a route behind auth: the throw of line 180 is outside the
\* try block of an async function, so the promise of the middleware is
\* rejected, nothing calls next and nothing answers
auth(q, h) ==
  LET v == JwtVerify(h.token, AccessSecret, seconds)
      u == h.token.sub IN
  IF h.scheme # "Bearer" THEN [q EXCEPT !.pc = "rejected"]
  ELSE IF v # "ok" THEN Fail(q, AuthCatch(v))
  ELSE IF accounts[u].state # "present"
  THEN Fail(q, ForbiddenError("no access"))
  ELSE [q EXCEPT !.locals = u, !.pc = "next"]

Guarded(r, h, route) ==
  /\ AuthStart(r)
  /\ route.auth \/ h = NoHeader      \* no other middleware reads the header
  /\ LET q == [areq[r] EXCEPT !.op = "guarded", !.header = h,
                              !.route = route, !.solo = Solo(r)]
         a == auth(q, h) IN
     areq' = [areq EXCEPT ![r] =
       IF ~route.auth THEN Guard(q)
       ELSE IF a.pc = "next" THEN Guard(a)
       ELSE a]
  /\ UNCHANGED <<accounts, seconds, handed, orderVars>>

(* ------------------- controllers/customers.ts deleteCustomer ----------- *)
DeleteCustomer(r, u) ==
  /\ AuthStart(r)
  /\ LET q == [areq[r] EXCEPT !.op = "deleteCustomer", !.user = u,
                              !.solo = Solo(r)] IN
     IF accounts[u].state = "present"
     THEN /\ accounts' = [accounts EXCEPT ![u] = DeletedUser]
          /\ areq' = [areq EXCEPT ![r] = AuthFinish(q, OK, "")]
     ELSE /\ accounts' = accounts
          /\ areq' = [areq EXCEPT ![r] = Fail(q, NotFoundError("no such user"))]
  /\ UNCHANGED <<seconds, handed, orderVars>>

AuthInit ==
  /\ AuthIdle
  /\ products = InitProducts
  /\ counters = <<>>
  /\ orders = <<>>
  /\ users = [u \in Users |-> InitUser(u, 0)]
  /\ req = [r \in Reqs |-> IdleReq]
  /\ clock = 0
  /\ epoch = 0

AuthNext ==
  \/ Tick
  \/ \E r \in AReqs, u \in Users, pw \in Passwords : Login(r, u, pw)
  \/ \E r \in AReqs, u \in Users, v \in BOOLEAN : Register(r, u, v, "pw1")
  \/ \E r \in AReqs : PushSave(r)
  \/ \E r \in AReqs, op \in {"logout", "refresh"}, c \in CookieInputs :
       Revoke(r, op, c)
  \/ \E r \in AReqs : RevokeSave(r)
  \/ \E r \in AReqs, h \in HeaderInputs, route \in Routes : Guarded(r, h, route)
  \/ \E r \in AReqs, u \in Users : DeleteCustomer(r, u)

AuthSpec == AuthInit /\ [][AuthNext]_vars

(* ======================= accounts, guards and reads ==================== *)
\* bodies sent to PATCH /auth/user and PATCH /customers/:id: a new
\* password, role lists (empty, outside the enum, admin), a new name
UserBodies ==
  { [paths |-> {"password"}, password |-> Plain("pw2"), roles |-> {}],
    [paths |-> {"roles"}, password |-> Omitted, roles |-> {}],
    [paths |-> {"roles"}, password |-> Omitted, roles |-> {"manager"}],
    [paths |-> {"roles"}, password |-> Omitted, roles |-> {"admin"}],
    [paths |-> {"name"}, password |-> Omitted, roles |-> {}] }

\* User.findByIdAndUpdate(id, req.body, {new: true}): the paths of the
\* body that the schema knows are $set as they come; no save() runs, so
\* the pre-save hook does not, and without runValidators neither does the
\* enum of roles
findByIdAndUpdate(stored, body) ==
  [stored EXCEPT
     !.password = IF "password" \in body.paths THEN body.password ELSE @,
     !.roles = IF "roles" \in body.paths THEN body.roles ELSE @]

\* a user document handed back by a query and sent with res.json
Sent(u, stored) == toJSON(SelectDefault(RawUser(u, stored)))

\* Order.findOne({orderNumber}) and Order.findById: the matching orders
OrdersByNumber(n) == SelectSeq(orders, LAMBDA o : o.orderNumber = n)
OrdersById(id) == SelectSeq(orders, LAMBDA o : o.id = id)

\* order numbers and ids a client may ask for: those in the collection and
\* one that names nothing
OrderRefs == {orders[i].orderNumber : i \in 1 .. Len(orders)}
               \cup {Len(orders) + 1}

\* what reading a property of null throws
TypeError ==
  [name |-> "TypeError", statusCode |-> NULL,
   message |-> "Cannot read properties of null"]

(* ------------- middlewares/validations.ts currentUserAccessMiddleware --- *)
\* a guard that lets every caller through once the resource is found
currentUserAccessAnyOwner(found, owner, caller) ==
  IF ~found THEN NotFoundError("not found")
  ELSE NoError

\* the part after `await model.findById(id)`: the entity, its owner field
\* and the id of res.locals.user; NoError stands for next()
currentUserAccessMiddleware(found, owner, caller) ==
  IF ~found THEN NotFoundError("not found")            \* 'Не найдено'
  ELSE IF owner # caller THEN ForbiddenError("access denied")
  ELSE NoError

(* ------------------- requests to routes behind auth -------------------- *)
AuthedOps ==
  {"updateCurrentUser", "getCurrentUser", "getOrderCurrentUserByNumber",
   "owned"}

\* auth, then the first part of what the route mounts: the ownership
\* guard lets an admin through at once (the controller runs and answers)
\* and otherwise goes to the store; the controllers go to the store
Authed(r, h, op, n, body) ==
  /\ AuthStart(r)
  /\ body = NoBody \/ op = "updateCurrentUser"
  /\ n = 0 \/ op \in {"getOrderCurrentUserByNumber", "owned"}
  /\ LET q == [areq[r] EXCEPT !.op = op, !.header = h, !.num = n,
                              !.upd = body, !.solo = Solo(r),
                              !.route = [auth |-> TRUE, guard |-> FALSE,
                                         roles |-> {}]]
         a == auth(q, h) IN
     areq' = [areq EXCEPT ![r] =
       IF a.pc # "next" THEN a
       ELSE IF op # "owned" THEN [a EXCEPT !.pc = "controller"]
       ELSE IF "admin" \in accounts[a.locals].roles
       THEN AuthFinish([a EXCEPT !.ctl = TRUE], OK, "")
       ELSE [a EXCEPT !.pc = "access"]]
  /\ UNCHANGED <<accounts, seconds, handed, orderVars>>

\* the ownership guard of an order route after its findById
Access(r) ==
  /\ areq[r].pc = "access"
  /\ LET q == areq[r]
         found == OrdersById(q.num)
         owner == IF found = <<>> THEN "none" ELSE found[1].customer
         e == currentUserAccessMiddleware(found # <<>>, owner, q.locals)
         l == [q EXCEPT !.entity = IF found = <<>> THEN "absent" ELSE owner]
     IN areq' = [areq EXCEPT ![r] =
          IF e # NoError THEN Fail(l, e)
          ELSE AuthFinish([l EXCEPT !.ctl = TRUE], OK, "")]
  /\ UNCHANGED <<accounts, seconds, handed, orderVars>>

\* controllers/auth.ts updateCurrentUser and getCurrentUser,
\* controllers/order.ts getOrderCurrentUserByNumber: the one await of each
Controller(r) ==
  /\ areq[r].pc = "controller"
  /\ LET q == [areq[r] EXCEPT !.ctl = TRUE]
         u == q.locals
         found == OrdersByNumber(q.num)
         owner == IF found = <<>> THEN "none" ELSE found[1].customer IN
     IF q.op = "updateCurrentUser"
     THEN IF accounts[u].state # "present"
          THEN /\ areq' = [areq EXCEPT ![r] =
                            Fail(q, NotFoundError("no such user"))]
               /\ accounts' = accounts
          ELSE /\ accounts' = [accounts EXCEPT ![u] =
                                 findByIdAndUpdate(@, q.upd)]
               /\ areq' = [areq EXCEPT ![r] =
                    AuthFinish([q EXCEPT !.body = {Sent(u, accounts'[u])}],
                               OK, "")]
     ELSE
       /\ accounts' = accounts
       /\ areq' = [areq EXCEPT ![r] =
            IF q.op = "getCurrentUser"
            THEN IF accounts[u].state # "present"
                 THEN Fail(q, NotFoundError("no such user"))
                 ELSE AuthFinish([q EXCEPT !.body = {Sent(u, accounts[u])}],
                                 OK, "")
            ELSE \* getOrderCurrentUserByNumber: populate leaves null
                 \* where the customer is gone, and order.customer._id throws
                 IF found = <<>> THEN Fail(q, NotFoundError("no such order"))
                 ELSE IF accounts[owner].state # "present"
                 THEN Fail(q, TypeError)
                 ELSE IF owner # u THEN Fail(q, NotFoundError("no such order"))
                 ELSE AuthFinish([q EXCEPT !.body =
                                     {Sent(owner, accounts[owner])}], OK, "")]
  /\ UNCHANGED <<seconds, handed, orderVars>>

(* ------------------- controllers/customers.ts updateCustomer ----------- *)
UpdateCustomer(r, u, body) ==
  /\ AuthStart(r)
  /\ LET q == [areq[r] EXCEPT !.op = "updateCustomer", !.user = u,
                              !.upd = body, !.solo = Solo(r)] IN
     IF accounts[u].state = "present"
     THEN /\ accounts' = [accounts EXCEPT ![u] = findByIdAndUpdate(@, body)]
          /\ areq' = [areq EXCEPT ![r] =
               AuthFinish([q EXCEPT !.body = {Sent(u, accounts'[u])}], OK, "")]
     ELSE /\ accounts' = accounts
          /\ areq' = [areq EXCEPT ![r] = Fail(q, NotFoundError("no such user"))]
  /\ UNCHANGED <<seconds, handed, orderVars>>

(* ------------------- controllers/order.ts getOrders -------------------- *)
\* the aggregation: $lookup joins the user documents as they are stored
\* and $unwind drops the orders whose customer is gone; every order of the
\* model holds a product
GetOrders(r) ==
  /\ AuthStart(r)
  /\ areq' = [areq EXCEPT ![r] =
       [@ EXCEPT !.op = "getOrders", !.pc = "count", !.solo = Solo(r),
                 !.body = {RawUser(orders[i].customer,
                                   accounts[orders[i].customer]) :
                             i \in {j \in 1 .. Len(orders) :
                                      accounts[orders[j].customer].state
                                        = "present"}}]]
  /\ UNCHANGED <<accounts, seconds, handed, orderVars>>

\* Order.countDocuments(filters), then the answer
CountOrders(r) ==
  /\ areq[r].pc = "count"
  /\ areq' = [areq EXCEPT ![r] = AuthFinish(@, OK, "")]
  /\ UNCHANGED <<accounts, seconds, handed, orderVars>>

\* the shop with its administrator u1 and one order of u1; u2 has either
\* not registered yet, or is a customer with one order, logged in
CustomerOrder == NewOrder(2, 2, [items |-> <<"p1">>, total |-> 10], "u2", 2)

AccountInit ==
  \E registered \in BOOLEAN :
    /\ accounts = [u \in Users |->
                     IF u = "u1" THEN LoggedIn(u, {"admin"})
                     ELSE IF registered THEN LoggedIn(u, {"customer"})
                     ELSE NoUser]
    /\ handed = {SignRefreshToken(u, 0) : u \in
                   IF registered THEN Users ELSE {"u1"}}
                 \cup {generateAccessToken(u, 0) : u \in
                         IF registered THEN Users ELSE {"u1"}}
    /\ orders = IF registered THEN <<InitOrder(1), CustomerOrder>>
                ELSE <<InitOrder(1)>>
    /\ users = [u \in Users |->
                  IF u = "u1" THEN InitUser(u, 1)
                  ELSE IF registered
                  THEN [totalAmount |-> 10, orderCount |-> 1,
                        lastOrderDate |-> 2, lastOrder |-> 2, orders |-> <<2>>]
                  ELSE InitUser(u, 0)]
    /\ areq = [r \in AReqs |-> IdleAuthReq]
    /\ seconds = 0
    /\ products = InitProducts
    /\ counters = IF registered THEN <<2>> ELSE <<1>>
    /\ req = [r \in Reqs |-> IdleReq]
    /\ clock = IF registered THEN 2 ELSE 1
    /\ epoch = 0

AccessHeaders ==
  {NoHeader} \cup {Bearer(t) : t \in {x \in handed : x.key = AccessSecret}}

AccountNext ==
  \/ \E r \in AReqs, u \in Users, pw \in Passwords : Login(r, u, pw)
  \/ \E r \in AReqs, u \in Users, v \in BOOLEAN, pw \in Passwords :
       Register(r, u, v, pw)
  \/ \E r \in AReqs : PushSave(r)
  \/ \E r \in AReqs, h \in AccessHeaders, op \in AuthedOps,
        n \in {0} \cup OrderRefs, body \in {NoBody} \cup UserBodies :
       Authed(r, h, op, n, body)
  \/ \E r \in AReqs : Access(r)
  \/ \E r \in AReqs : Controller(r)
  \/ \E r \in AReqs, u \in Users, body \in UserBodies :
       UpdateCustomer(r, u, body)
  \/ \E r \in AReqs, u \in Users : DeleteCustomer(r, u)
  \/ \E r \in AReqs : GetOrders(r)
  \/ \E r \in AReqs : CountOrders(r)

AccountSpec == AccountInit /\ [][AccountNext]_vars

\* the ownership guard by itself, with the requests that change what it
\* reads (the roles and the presence of the caller)
GuardNext ==
  \/ \E r \in AReqs, h \in AccessHeaders, n \in OrderRefs :
       Authed(r, h, "owned", n, NoBody)
  \/ \E r \in AReqs : Access(r)
  \/ \E r \in AReqs, u \in Users, body \in UserBodies :
       UpdateCustomer(r, u, body)
  \/ \E r \in AReqs, u \in Users : DeleteCustomer(r, u)

GuardSpec == AccountInit /\ [][GuardNext]_vars

(* ----------------------- controllers/products.ts ----------------------- *)
\* request bodies of updateProduct as the router delivers them (every key
\* optional, price a number or null): without a price, and with the prices
\* 0, 15 and null
ProductBodies ==
  { [keys |-> {"title"}, price |-> NULL],
    [keys |-> {"price"}, price |-> 0],
    [keys |-> {"price"}, price |-> 15],
    [keys |-> {"price"}, price |-> NULL] }

\* the ids tried: the catalogue and an id that names no product
ProductTargets == ProductIds \cup {"p9"}

\* req.body.price ? req.body.price : null -- undefined, null and 0 are
\* falsy
PriceToSet(body) ==
  IF "price" \in body.keys /\ body.price # NULL /\ body.price # 0
  THEN body.price ELSE NULL

\* Product.findByIdAndUpdate(productId, {$set: {...req.body, price, image}},
\* {runValidators: true, new: true}).orFail(NotFoundError): price is always
\* among the keys of $set
updateProduct(prods, p, body) ==
  IF p \in DOMAIN prods
  THEN [resp |-> OK, products |-> [prods EXCEPT ![p] = PriceToSet(body)]]
  ELSE [resp |-> NotFound, products |-> prods]

UpdateProduct(r, p, body) ==
  /\ CanStart(r)
  /\ LET q == [req[r] EXCEPT !.op = "updateProduct"]
         out == updateProduct(products, p, body) IN
     /\ req' = [req EXCEPT ![r] = Finish(q, out.resp)]
     /\ products' = out.products
  /\ UNCHANGED <<counters, orders, users, clock, epoch, authVars>>

\* the catalogue changing under order creation
CatalogueNext ==
  \/ \E r \in Reqs, u \in Users, body \in OrderBodies, valid \in BOOLEAN :
       CreateOrder(r, u, body, valid)
  \/ \E r \in Reqs : IncrementOrderNumber(r)
  \/ \E r \in Reqs : UpsertOrderNumber(r)
  \/ \E r \in Reqs : InsertOrder(r)
  \/ \E r \in Reqs : PostSaveHook(r)
  \/ \E r \in Reqs : CalcAggregate(r)
  \/ \E r \in Reqs : CalcSave(r)
  \/ \E r \in Reqs, p \in ProductTargets, body \in ProductBodies :
       UpdateProduct(r, p, body)

CatalogueSpec == Init /\ [][CatalogueNext]_vars

(* ----------------- the saves of a user and its password --------------- *)
\* every handler that saves a user document, one request after the other:
\* the sessions of the users and the orders of u1, created and deleted
GoodBody == [items |-> <<"p1", "p2">>, total |-> 30]

\* no request is in flight
Turn ==
  /\ \A s \in Reqs : req[s].pc \in {"idle", "done"}
  /\ \A s \in AReqs : areq[s].pc \in {"idle", "done"}

PasswordNext ==
  \/ \E r \in AReqs, u \in Users, pw \in Passwords : Turn /\ Login(r, u, pw)
  \/ \E r \in AReqs, pw \in Passwords : Turn /\ Register(r, "u2", TRUE, pw)
  \/ \E r \in AReqs : PushSave(r)
  \/ \E r \in AReqs, op \in {"logout", "refresh"},
        c \in {t \in handed : t.key = RefreshSecret} :
       Turn /\ Revoke(r, op, c)
  \/ \E r \in AReqs : RevokeSave(r)
  \/ \E r \in Reqs : Turn /\ CreateOrder(r, "u1", GoodBody, TRUE)
  \/ \E r \in Reqs : IncrementOrderNumber(r)
  \/ \E r \in Reqs : UpsertOrderNumber(r)
  \/ \E r \in Reqs : InsertOrder(r)
  \/ \E r \in Reqs : PostSaveHook(r)
  \/ \E r \in Reqs : CalcAggregate(r)
  \/ \E r \in Reqs : CalcSave(r)
  \/ \E r \in Reqs, id \in OrderIds :
       Turn /\ OrdersById(id) # <<>> /\ DeleteOrder(r, id)
  \/ \E r \in Reqs : PostDeleteHook(r)

PasswordSpec == Init /\ [][PasswordNext]_vars

(* ------------------------- derived state views ------------------------- *)
Quiescent == \A r \in Reqs : req[r].pc \in {"idle", "done"}

Exists(id) == \E i \in 1 .. Len(orders) : orders[i].id = id

\* what a recomputation over the present orders yields for u
Derived(u) == AssignStats(Stats(users[u]), AggregateStats(orders, u))

\* the number of orders the store held at start, while none was deleted
InitCount == Cardinality({k \in InitIds : Exists(k)})

Handed(r) == req[r].op = "create" /\ req[r].num # 0

Created(r) == req[r].op = "create" /\ req[r].resp = OK

ValidCreate(r) ==
  /\ req[r].op = "create"
  /\ createOutcome(products, req[r].body, req[r].valid) = "ok"

(* -------------------------------- claims ------------------------------- *)
\* C1: no two createOrder requests are handed the same sequence value and
\* no two persisted orders carry the same orderNumber, the first-use
\* upsert of the counter included.
C1_DistinctNumbers ==
  /\ \A r1, r2 \in Reqs :
       (r1 # r2 /\ Handed(r1) /\ Handed(r2)) => req[r1].num # req[r2].num
  /\ \A i, j \in 1 .. Len(orders) :
       i # j => orders[i].orderNumber # orders[j].orderNumber

\* C2: from a store without counter and orders, MaxReq parallel createOrder
\* requests that pass the basket checks end with MaxReq orders numbered
\* exactly 1..MaxReq, none rejected.
C2_FreshParallel ==
  ( /\ \A r \in Reqs : ValidCreate(r) /\ req[r].pc = "done"
    /\ \A k \in InitIds : ~Exists(k) )
  => /\ \A r \in Reqs : req[r].resp = OK
     /\ {orders[i].orderNumber : i \in 1 .. Len(orders)} = 1 .. MaxReq
     /\ Len(orders) = MaxReq

\* C3: an order's orderNumber is set when the order is first persisted (to
\* the value its request was handed) and no later step changes it.
C3_NumberAssignedOnce ==
  [][ \A i \in 1 .. Len(orders') :
        LET o == orders'[i] IN
        IF Exists(o.id)
        THEN \A j \in 1 .. Len(orders) :
               orders[j].id = o.id => orders[j].orderNumber = o.orderNumber
        ELSE \E r \in Reqs : /\ req[r].pc = "insert" /\ req[r].oid = o.id
                              /\ o.orderNumber = req[r].num
                              /\ o.orderNumber >= 1 ]_vars

\* an order made by a finished createOrder whose status was then updated
C3_Witness ==
  \E r \in Reqs, i \in 1 .. Len(orders) :
    /\ Created(r) /\ req[r].pc = "done"
    /\ orders[i].id = req[r].oid /\ orders[i].status = "cancelled"
    /\ orders[i].orderNumber = req[r].num

\* C4: createOrder answers BadRequest exactly when an item is unknown, an
\* item has a null price or the prices do not add up to the declared
\* total; every other request is answered 200 with its order persisted.
RejectCase(body) ==
  \/ \E i \in 1 .. Len(body.items) : body.items[i] \notin ProductIds
  \/ \E i \in 1 .. Len(body.items) :
       body.items[i] \in ProductIds /\ products[body.items[i]] = NULL
  \/ BasketTotal(products, body.items) # body.total

C4_RejectIff ==
  \A r \in Reqs :
    (req[r].op = "create" /\ req[r].pc = "done" /\ req[r].body.items # ABSENT
       /\ req[r].valid) =>
      /\ req[r].resp = BadRequest <=> RejectCase(req[r].body)
      /\ ~RejectCase(req[r].body) => req[r].resp = OK

\* C5: after a successful createOrder of user U (the only request so far)
\* U's orderCount and totalAmount have grown by the order and lastOrder is
\* the new order.
Alone(r) == \A s \in Reqs : s # r => req[s].pc = "idle"

C5_StatsAfterCreate ==
  \A r \in Reqs :
    (Created(r) /\ Alone(r)) =>
      LET prior == InitUser(req[r].user, InitCount)
          now == users[req[r].user] IN
      /\ now.orderCount = prior.orderCount + 1
      /\ now.totalAmount = prior.totalAmount + req[r].body.total
      /\ now.lastOrder = req[r].oid

\* C6: in the step in which createOrder answers 200 the owner's persisted
\* order list and statistics already include the new order.
C6_SyncRecompute ==
  [][ \A r \in Reqs :
        (req[r].op = "create" /\ req[r].resp = NoResponse /\ req'[r].resp = OK)
        => /\ \E i \in 1 .. Len(orders') : orders'[i].id = req[r].oid
           /\ \E i \in 1 .. Len(users'[req[r].user].orders) :
                 users'[req[r].user].orders[i] = req[r].oid
           /\ users'[req[r].user].lastOrder = req[r].oid ]_vars

\* C7: createOrder for U answered, then deleteOrder of that order answered,
\* nothing else asked: U's four statistics are back at their prior values.
C7_RoundTrip ==
  \A c, d \in Reqs :
    ( /\ Created(c)
      /\ req[d].op = "delete" /\ req[d].resp = OK
      /\ req[d].oid = req[c].oid /\ req[d].after
      /\ \A s \in Reqs : s \notin {c, d} => req[s].pc = "idle"
      /\ Quiescent )
    => Stats(users[req[c].user]) = Stats(InitUser(req[c].user, InitCount))

\* C8: with no request in flight every user's four statistics equal the
\* aggregation over the orders that exist for that user.
C8_StatsAreCache ==
  Quiescent => \A u \in Users : Stats(users[u]) = Derived(u)

\* C9: two recomputations for one user that aggregate with no order
\* created or deleted in between assign the same four values; and when the
\* second one loaded the statistics the first one had saved, its save
\* leaves the persisted statistics as they are.
Recomputed(r) ==
  /\ req[r].op \in {"create", "delete"}
  /\ req[r].pc = "save" \/ (req[r].pc = "done" /\ req[r].resp = OK)

SameOrders(r1, r2) ==
  /\ r1 # r2 /\ req[r1].user = req[r2].user /\ req[r1].ep = req[r2].ep

C9_SameValues ==
  \A r1, r2 \in Reqs :
    (Recomputed(r1) /\ Recomputed(r2) /\ SameOrders(r1, r2))
    => req[r1].doc = req[r2].doc

C9_SecondSaveKeeps ==
  \A r1, r2 \in Reqs :
    ( /\ Recomputed(r1) /\ req[r1].pc = "done"
      /\ req[r2].pc = "save" /\ req'[r2].pc = "done"
      /\ SameOrders(r1, r2)
      /\ Stats(users[req[r1].user]) = req[r1].doc
      /\ req[r2].loaded = req[r1].doc )
    => Stats(users'[req[r2].user]) = req[r1].doc

C9_Idempotent == [][C9_SecondSaveKeeps]_vars /\ []C9_SameValues

\* the first recomputation of a user has saved an order count of 2, the
\* second one loaded that, aggregated the same orders and is about to save
C9_Witness ==
  \E r1, r2 \in Reqs :
    /\ Recomputed(r1) /\ req[r1].pc = "done"
    /\ req[r2].pc = "save" /\ SameOrders(r1, r2)
    /\ req[r1].doc.orderCount = 2
    /\ Stats(users[req[r1].user]) = req[r1].doc
    /\ req[r2].loaded = req[r1].doc

\* C10: a recomputation that finds no order of its user leaves the user's
\* four persisted statistics at 0, 0, null, null when it has saved.
C10_ZeroReset ==
  [][ \A r \in Reqs :
        ( /\ req[r].pc = "save" /\ req'[r].pc = "done"
          /\ req[r].doc = ZeroStats
          /\ AggregateStats(orders, req[r].user) = <<>> )
        => Stats(users'[req[r].user]) = ZeroStats ]_vars

\* C11: an updateOrder step changes no user record (statistics and order
\* list), starts no recomputation (the request is finished in that very
\* step and no other request moves), and what the aggregation yields for
\* every user is the same before and after it: an order that becomes
\* cancelled still counts in orderCount and totalAmount.
C11_UpdateFrame ==
  [][ \A r \in Reqs :
        (req[r].pc = "idle" /\ req'[r].op = "update")
        => /\ users' = users
           /\ req'[r].pc = "done"
           /\ \A s \in Reqs : s # r => req'[s] = req[s]
           /\ \A u \in Users :
                AggregateStats(orders', u) = AggregateStats(orders, u) ]_vars

\* an updateOrder has been answered 200, an order is cancelled and its
\* owner's persisted and re-derived order count both include it
C11_Witness ==
  \E r \in Reqs, i \in 1 .. Len(orders) :
    /\ req[r].op = "update" /\ req[r].resp = OK
    /\ orders[i].status = "cancelled"
    /\ users[orders[i].customer].orderCount = Len(orders)
    /\ Derived(orders[i].customer).orderCount = Len(orders)

(* ----------------------- session state views --------------------------- *)
\* from its arrival up to now request r has had the server to itself:
\* nothing was in flight when it arrived and nothing has arrived since
Undisturbed(r) ==
  /\ areq[r].solo
  /\ \A s \in AReqs : s > r => areq[s].pc = "idle"

\* request r is answered in this step
Answers(r) == areq[r].pc \notin {"idle", "done"} /\ areq'[r].pc = "done"

\* request r arrives in this step
Arrives(r) == areq[r].pc = "idle" /\ areq'[r].pc # "idle"

\* C12: in the step in which a refresh with cookie T is answered 200, no
\* other request having been in flight since it arrived, the user's list
\* holds the fingerprint of the token put in the cookie and no longer the
\* fingerprint of T.
C12_Rotation ==
  [][ \A r \in AReqs :
        ( /\ areq[r].op = "refresh" /\ Answers(r) /\ areq'[r].resp = OK
          /\ Undisturbed(r) )
        => LET list == Range(accounts'[areq[r].user].tokens) IN
           /\ RevokeFingerprint(areq[r].cookie) \notin list
           /\ IssueFingerprint(areq'[r].setCookie.value) \in list ]_vars

\* C13: a refresh with T was answered 200 and put another token in the
\* cookie; a later refresh that presents T again before T expires, with
\* the server to itself, is answered NotFound or Unauthorized, with no
\* access token and no cookie.
C13_ReplayFails ==
  \A r1, r2 \in AReqs :
    ( /\ r1 < r2
      /\ areq[r1].op = "refresh" /\ areq[r1].resp = OK
      /\ areq[r1].setCookie.value # areq[r1].cookie
      /\ areq[r2].op = "refresh" /\ areq[r2].pc = "done" /\ Undisturbed(r2)
      /\ areq[r2].cookie = areq[r1].cookie
      /\ seconds < areq[r2].cookie.exp )
    => /\ areq[r2].resp \in {NotFound, Unauthorized}
       /\ areq[r2].access = NoToken
       /\ areq[r2].setCookie = NoCookie

\* C14: a logout or refresh that arrives without cookie, with a cookie
\* that was not signed with the refresh secret or has expired, or with a
\* token whose user is not in the collection is answered Unauthorized in
\* that step, and no token list changes.
RevokeFailureCase(c) ==
  \/ c = NoToken
  \/ c.key # RefreshSecret
  \/ seconds >= c.exp
  \/ accounts[c.sub].state # "present"

C14_RevokeUnauthorized ==
  [][ \A r \in AReqs :
        ( /\ Arrives(r) /\ areq'[r].op \in {"logout", "refresh"}
          /\ RevokeFailureCase(areq'[r].cookie) )
        => /\ areq'[r].pc = "done"
           /\ areq'[r].resp = Unauthorized
           /\ accounts' = accounts ]_vars

\* C15: the save of generateRefreshToken appends exactly one entry to the
\* user's list, and that entry is what the keyed hash of the revocation
\* computes for the token put in the cookie; in every state no stored
\* entry is a raw refresh token.
RawTokens == {SignRefreshToken(u, t) : u \in Users, t \in 0 .. MaxTime}

C15_NoRawStored ==
  \A u \in Users : \A i \in 1 .. Len(accounts[u].tokens) :
    accounts[u].tokens[i] \notin RawTokens \cup handed

C15_AppendsOne ==
  \A r \in AReqs :
    (areq[r].pc = "push" /\ areq'[r].resp \in {OK, CreatedStatus})
    => accounts'[areq[r].user].tokens =
         Append(accounts[areq[r].user].tokens,
                RevokeFingerprint(areq'[r].setCookie.value))

C15_Fingerprints == [][C15_AppendsOne]_vars /\ []C15_NoRawStored

\* a login has been answered and the user's list ends with the fingerprint
\* of the token in its cookie, after the entry of the earlier login
C15_Witness ==
  \E r \in AReqs :
    LET list == accounts[areq[r].user].tokens IN
    /\ areq[r].op = "login" /\ areq[r].resp = OK
    /\ Len(list) = 2
    /\ list[2] = RevokeFingerprint(areq[r].setCookie.value)
    /\ areq[r].setCookie.value \in RawTokens

\* C16: a step changes the token list of a user only in one of two ways:
\* the save of a login, register or refresh of that user appends the
\* fingerprint of the token it signed and removes nothing; the save of a
\* logout or refresh of that user removes the entries equal to the
\* fingerprint of the presented token and keeps every other entry.
C16_ListFrame ==
  [][ \A u \in Users :
        ( /\ accounts[u].state = "present" /\ accounts'[u].state = "present"
          /\ accounts'[u].tokens # accounts[u].tokens )
        => \E r \in AReqs :
             /\ areq[r].user = u
             /\ \/ /\ areq[r].pc = "push" /\ areq'[r].pc = "done"
                   /\ accounts'[u].tokens =
                        Append(accounts[u].tokens,
                               Hmac(RefreshSecret, areq[r].tok))
                \/ /\ areq[r].pc = "revoke" /\ areq'[r].pc # "revoke"
                   /\ accounts'[u].tokens =
                        SelectSeq(accounts[u].tokens,
                                  LAMBDA x : x # Hmac(RefreshSecret,
                                                      areq[r].cookie)) ]_vars

\* C17: a request to a route behind auth leaves the middleware with the
\* user context set (and control passed on) exactly when its header is a
\* Bearer header whose token is signed with the access secret, has not
\* expired and names a user in the collection; the context is then that
\* user.  In every other case no context is set and the controller does
\* not run.
AuthArrives(r) == Arrives(r) /\ areq'[r].op = "guarded" /\ areq'[r].route.auth

ValidBearer(h) ==
  /\ h.scheme = "Bearer"
  /\ h.token.key = AccessSecret
  /\ seconds < h.token.exp
  /\ accounts[h.token.sub].state = "present"

C17_AuthIff ==
  [][ \A r \in AReqs :
        AuthArrives(r) =>
          IF ValidBearer(areq'[r].header)
          THEN /\ areq'[r].locals = areq'[r].header.token.sub
               /\ areq'[r].pc = "done"
               /\ areq'[r].route.guard \/ (areq'[r].ctl /\ areq'[r].resp = OK)
          ELSE /\ areq'[r].locals = "none"
               /\ ~areq'[r].ctl ]_vars

\* one request got through auth to the controller; another one, whose
\* token is signed by the server but has expired, did not
C17_Witness ==
  \E r1, r2 \in AReqs :
    /\ areq[r1].op = "guarded" /\ areq[r1].route.auth
    /\ areq[r1].locals = "u1" /\ areq[r1].ctl
    /\ areq[r2].op = "guarded" /\ areq[r2].route.auth
    /\ areq[r2].header.token.key = AccessSecret
    /\ areq[r2].locals = "none" /\ ~areq[r2].ctl
    /\ areq[r2].resp = Unauthorized

\* C18: a request to a route behind auth that is not authenticated (no
\* header, a header that is not Bearer, a token that does not verify or
\* has expired, a user that does not exist) has an error answer from the
\* error handler once the middleware has run; the middleware being one
\* step and a request at "rejected" having no further step, this is what
\* "eventually answered" comes to.
C18_FailureAnswered ==
  \A r \in AReqs :
    ( /\ areq[r].op = "guarded" /\ areq[r].route.auth
      /\ areq[r].locals = "none" )
    => /\ areq[r].pc = "done"
       /\ areq[r].resp \in {Unauthorized, Forbidden}

\* C19: a Bearer token signed with the access secret that has expired is
\* answered Unauthorized with the message of the expiry, a token not
\* signed with the access secret is answered Unauthorized with the
\* message of the missing authorization, and the two messages differ.
C19_TwoMessages ==
  [][ \A r \in AReqs :
        (AuthArrives(r) /\ areq'[r].header.scheme = "Bearer") =>
          LET t == areq'[r].header.token IN
          /\ (t.key = AccessSecret /\ seconds >= t.exp)
             => /\ areq'[r].resp = Unauthorized
                /\ areq'[r].message = "token expired"
          /\ t.key # AccessSecret
             => /\ areq'[r].resp = Unauthorized
                /\ areq'[r].message = "authorization required" ]_vars

\* an expired token and a forged one have both been answered
C19_Witness ==
  \E r1, r2 \in AReqs :
    /\ areq[r1].op = "guarded" /\ areq[r1].route.auth
    /\ areq[r1].header.token.key = AccessSecret
    /\ areq[r1].resp = Unauthorized /\ areq[r1].message = "token expired"
    /\ areq[r2].op = "guarded" /\ areq[r2].route.auth
    /\ areq[r2].header = Bearer(ForgedAccess)
    /\ areq[r2].resp = Unauthorized
    /\ areq[r2].message = "authorization required"

\* C20: on a route with a role guard, a request without user context is
\* answered Unauthorized; one whose user holds none of the required roles
\* is answered Forbidden and does not reach the controller; one whose user
\* holds a required role reaches the controller.  So {customer} on the
\* admin-only route is Forbidden and {admin} gets through.
C20_RoleGuard ==
  [][ \A r \in AReqs :
        ( /\ Arrives(r) /\ areq'[r].op = "guarded" /\ areq'[r].route.guard
          /\ areq'[r].route.auth => areq'[r].locals # "none" )
        => LET u == areq'[r].locals
               required == areq'[r].route.roles IN
           IF u = "none"
           THEN areq'[r].resp = Unauthorized /\ ~areq'[r].ctl
           ELSE IF accounts[u].roles \cap required = {}
           THEN areq'[r].resp = Forbidden /\ ~areq'[r].ctl
           ELSE areq'[r].resp = OK /\ areq'[r].ctl ]_vars

\* a registered user, roles {customer}, has been answered Forbidden on the
\* admin-only route
C20_Witness ==
  \E r \in AReqs :
    /\ areq[r].op = "guarded" /\ areq[r].route.roles = {"admin"}
    /\ areq[r].locals = "u2" /\ accounts["u2"].roles = {"customer"}
    /\ areq[r].resp = Forbidden /\ ~areq[r].ctl

\* C21: on a route behind the ownership guard, a caller who holds the
\* admin role gets through in the step of its arrival and no resource is
\* loaded for it; for every other caller the resource is loaded, and the
\* request is answered NotFound when no resource has the id, Forbidden
\* when the owner field of the resource is not the caller's id, and
\* reaches the controller only when the caller is the owner.
C21_AdminStep ==
  \A r \in AReqs :
    (Arrives(r) /\ areq'[r].op = "owned" /\ areq'[r].locals # "none")
    => IF "admin" \in accounts[areq'[r].locals].roles
       THEN /\ areq'[r].pc = "done" /\ areq'[r].ctl /\ areq'[r].resp = OK
            /\ areq'[r].entity = "none"
       ELSE areq'[r].pc = "access" /\ ~areq'[r].ctl

C21_OwnerStep ==
  \A r \in AReqs :
    (areq[r].pc = "access" /\ areq'[r].pc # "access")
    => LET id == areq[r].num
           caller == areq[r].locals
           found == {o \in Range(orders) : o.id = id} IN
       /\ areq'[r].pc = "done" /\ areq'[r].entity # "none"
       /\ found = {} => areq'[r].resp = NotFound /\ ~areq'[r].ctl
       /\ \A o \in found :
            IF o.customer = caller
            THEN areq'[r].resp = OK /\ areq'[r].ctl
            ELSE areq'[r].resp = Forbidden /\ ~areq'[r].ctl

C21_OwnershipGuard == [][C21_AdminStep /\ C21_OwnerStep]_vars

\* the administrator got through without a resource being loaded, and the
\* customer u2 was answered Forbidden for the order of u1
C21_Witness ==
  \E r1, r2 \in AReqs :
    /\ areq[r1].op = "owned" /\ areq[r1].locals = "u1"
    /\ areq[r1].ctl /\ areq[r1].entity = "none"
    /\ areq[r2].op = "owned" /\ areq[r2].locals = "u2"
    /\ areq[r2].entity = "u1" /\ areq[r2].resp = Forbidden /\ ~areq[r2].ctl

\* C22: when getOrderCurrentUserByNumber answers a caller without the
\* admin role who asked for a number that no order has, or for an order
\* whose customer is somebody else (a deleted user included), the answer
\* is the NotFound answer of the missing order: same status, same
\* message, no order in the body.
C22_Step ==
  \A r \in AReqs :
    ( /\ areq[r].op = "getOrderCurrentUserByNumber"
      /\ areq[r].pc = "controller" /\ areq'[r].pc = "done"
      /\ "admin" \notin accounts[areq[r].locals].roles
      /\ \A o \in Range(orders) :
           o.orderNumber = areq[r].num => o.customer # areq[r].locals )
    => /\ areq'[r].resp = NotFound
       /\ areq'[r].message = "no such order"
       /\ areq'[r].body = {}

C22_NotFoundAlike == [][C22_Step]_vars

\* C23: in every reachable state the password stored for a user is a
\* bcrypt hash and never the text a client sent, after register and after
\* an updateCurrentUser or updateCustomer whose body names the password.
C23_HashedPassword ==
  \A u \in Users :
    accounts[u].state = "present" => accounts[u].password.alg = "bcrypt"

\* C24: no answer carries the stored password of a user: every user
\* document in a response body comes without the password path.
C24_NoPasswordSent ==
  \A r \in AReqs :
    areq[r].resp # NoResponse =>
      \A doc \in areq[r].body :
        "password" \notin doc.paths /\ doc.password = Omitted

\* C25: in every reachable state the roles of a user are a non-empty
\* subset of {customer, admin}, whatever bodies updateCurrentUser and
\* updateCustomer were sent; a user inserted by register has {customer}.
C25_RolesInEnum ==
  \A u \in Users :
    accounts[u].state = "present" =>
      accounts[u].roles # {} /\ accounts[u].roles \subseteq Role

C25_RegisterStep ==
  \A r \in AReqs :
    (Arrives(r) /\ areq'[r].op = "register" /\ areq'[r].pc = "push")
    => accounts'[areq'[r].user].roles = {"customer"}

C25_Roles == [][C25_RegisterStep]_vars /\ []C25_RolesInEnum

\* C26: a register that fails on arrival (the storage rejects the document
\* as invalid, or the email is taken) is answered BadRequest or Conflict in
\* that step, Conflict only for an email that is in the collection; no
\* user record changes, no fingerprint is stored, and the answer carries
\* no cookie and no access token.
C26_RegisterFailure ==
  [][ \A r \in AReqs :
        ( /\ Arrives(r) /\ areq'[r].op = "register"
          /\ areq'[r].pc = "done" )
        => LET u == areq'[r].user IN
           /\ areq'[r].resp \in {BadRequest, Conflict}
           /\ areq'[r].resp = Conflict => accounts[u].state = "present"
           /\ accounts[u].state = "absent" =>
                /\ areq'[r].resp = BadRequest
                /\ areq'[r].message = "validation"
           /\ accounts' = accounts
           /\ handed' = handed
           /\ areq'[r].setCookie = NoCookie
           /\ areq'[r].access = NoToken ]_vars

\* one register was answered BadRequest for an email nobody holds and
\* another one Conflict; the collection holds the seeded user only
C26_Witness ==
  \E r1, r2 \in AReqs :
    /\ areq[r1].op = "register" /\ areq[r1].resp = BadRequest
    /\ areq[r1].user = "u2"
    /\ areq[r2].op = "register" /\ areq[r2].resp = Conflict
    /\ areq[r2].message = "email in use"
    /\ accounts["u2"].state = "absent"
    /\ Len(accounts["u1"].tokens) = 1

\* C27: every failure of login, register, logout and refresh reaches the
\* caller as BadRequest, Unauthorized, Forbidden, NotFound or Conflict; a
\* token verification error, like a storage error, is never answered with
\* the unclassified 500.
C27_ClassifiedFailures ==
  \A r \in AReqs :
    ( /\ areq[r].op \in {"login", "register", "logout", "refresh"}
      /\ areq[r].pc = "done" /\ areq[r].err # NoError )
    => areq[r].resp \in {BadRequest, Unauthorized, Forbidden, NotFound,
                         Conflict}

\* C28: an error without status code, or with status 500, is answered 500
\* with the fixed generic message and nothing of its own message; every
\* other error is answered with its own status code and message.  This
\* is checked for every error a session request has handed to the handler
\* and for the errors of ErrorsTried; and an answer, once sent, is the
\* only one: status and message of a request never change afterwards.
ErrorsTried ==
  { NotFoundError("no such user"), ConflictError("email in use"),
    JwtError("JsonWebTokenError"), DocumentNotFoundError,
    [name |-> "Error", statusCode |-> ServerError, message |-> "stack"],
    [name |-> "Error", statusCode |-> 0, message |-> "zero"] }

HandlerAnswer(e, status, message) ==
  IF e.statusCode \in {NULL, 0, ServerError}
  THEN status = ServerError /\ message = GenericMessage /\ message # e.message
  ELSE status = e.statusCode /\ message = e.message

C28_Handled ==
  /\ \A r \in AReqs :
       areq[r].err # NoError =>
         /\ areq[r].pc = "done"
         /\ HandlerAnswer(areq[r].err, areq[r].resp, areq[r].message)
  /\ \A e \in ErrorsTried :
       HandlerAnswer(e, errorHandler(e).status, errorHandler(e).message)

C28_OneAnswer ==
  \A r \in AReqs :
    areq[r].resp # NoResponse =>
      areq'[r].resp = areq[r].resp /\ areq'[r].message = areq[r].message

C29_Removed ==
  \A d \in Reqs :
    ( /\ req[d].op = "delete" /\ req[d].pc = "done" /\ req[d].resp = OK
      /\ req[d].after )
    => /\ ~Exists(req[d].oid)
       /\ req[d].oid \notin Range(users[req[d].user].orders)

C29_AbsentFrame ==
  \A d \in Reqs :
    (req[d].pc = "idle" /\ req'[d].op = "delete" /\ req'[d].resp = NotFound)
    => orders' = orders /\ users' = users

C29_DeleteOrder == [][C29_AbsentFrame]_vars /\ []C29_Removed

\* C30: in every reachable store an updateOrder with an admissible status
\* and a number no order has is answered NotFound, one with a status
\* outside the enum is rejected (BadRequest), and both leave every order
\* as it is; an admissible status on an existing number changes nothing
\* but that order's status.  So every order's status is one of the four
\* values, and an order enters the collection with status new.
HasNumber(n) == \E i \in 1 .. Len(orders) : orders[i].orderNumber = n

C30_Outcome ==
  \A n \in OrderNumbers, status \in StatusInputs :
    LET out == updateOrder(orders, n, status) IN
    /\ (status \in StatusType /\ ~HasNumber(n))
         => out.resp = NotFound /\ out.orders = orders
    /\ status \notin StatusType
         => out.resp = BadRequest /\ out.orders = orders
    /\ (status \in StatusType /\ HasNumber(n))
         => /\ out.resp = OK /\ Len(out.orders) = Len(orders)
            /\ \A i \in 1 .. Len(orders) :
                 out.orders[i] =
                   IF orders[i].orderNumber = n
                   THEN [orders[i] EXCEPT !.status = status] ELSE orders[i]

C30_InEnum ==
  \A i \in 1 .. Len(orders) : orders[i].status \in StatusType

C30_Step ==
  /\ \A i \in 1 .. Len(orders') :
       ~Exists(orders'[i].id) => orders'[i].status = "new"
  /\ \A r \in Reqs :
       (req[r].pc = "idle" /\ req'[r].op = "update")
       => \E n \in OrderNumbers, status \in StatusInputs :
            /\ req'[r].resp = updateOrder(orders, n, status).resp
            /\ orders' = updateOrder(orders, n, status).orders

ConcurrentRefreshes(r1, r2) ==
  /\ r1 < r2
  /\ areq[r1].op = "refresh" /\ areq[r2].op = "refresh"
  /\ areq[r1].cookie = areq[r2].cookie
  /\ areq[r1].cookie.key = RefreshSecret
  /\ ~areq[r2].solo
  /\ areq[r1].pc = "done" /\ areq[r2].pc = "done"
  /\ \A s \in AReqs : s \notin {r1, r2} => areq[s].pc = "idle"
  /\ areq[r1].err.name # "TokenExpiredError"
  /\ areq[r2].err.name # "TokenExpiredError"

C31_ConcurrentRefresh ==
  \A r1, r2 \in AReqs :
    ConcurrentRefreshes(r1, r2) =>
      LET list == Range(accounts[areq[r1].cookie.sub].tokens) IN
      /\ areq[r1].resp = OK /\ areq[r2].resp = OK
      /\ RevokeFingerprint(areq[r1].cookie) \notin list
      /\ \/ IssueFingerprint(areq[r1].setCookie.value) \in list
         \/ IssueFingerprint(areq[r2].setCookie.value) \in list

\* C32: every order is persisted with a totalAmount equal to the sum of the
\* prices its products have when it is persisted, all of them for sale,
\* also when updateProduct changes a price while createOrder is under way
C32_TotalAtCreation ==
  [][\A r \in Reqs :
       (req[r].pc = "insert" /\ req'[r].pc = "hook") =>
         LET o == orders'[Len(orders')] IN
         /\ ResolveItems(products, req[r].body.items) = "ok"
         /\ o.totalAmount = BasketTotal(products, req[r].body.items)]_vars

\* C39: an updateProduct that is answered 200 leaves the price as it was
\* when the body carries no price, stores a body price of 0 as 0, and
\* stores null only when null is requested
C39_UpdateProductFrame ==
  [][\A r \in Reqs, p \in ProductIds, body \in ProductBodies :
       UpdateProduct(r, p, body) =>
         /\ "price" \notin body.keys => products'[p] = products[p]
         /\ ("price" \in body.keys /\ body.price = 0) => products'[p] = 0
         /\ products'[p] = NULL =>
              \/ ("price" \in body.keys /\ body.price = NULL)
              \/ ("price" \notin body.keys /\ products[p] = NULL)
         /\ \A o \in ProductIds \ {p} : products'[o] = products[o]]_vars

\* C33: the step that answers a login, a register or a refresh with
\* success sets the refreshToken cookie to the raw refresh token the request
\* signed, and the fingerprint of that token is then in the user's list;
\* the step that answers a logout with success sets the cookie to the empty
\* value with a negative max-age; a logout or refresh that fails sets no
\* cookie
C33_Answers(r) == areq[r].pc # "done" /\ areq'[r].pc = "done"

C33_CookieFollowsSession ==
  [][\A r \in AReqs :
       C33_Answers(r) =>
         LET q == areq'[r]
             success == q.resp \in {OK, CreatedStatus} IN
         /\ (q.op \in {"login", "register", "refresh"} /\ success) =>
              /\ q.setCookie.value = areq[r].tok
              /\ q.setCookie.value.key = RefreshSecret
              /\ q.setCookie.maxAge > 0
              /\ IssueFingerprint(q.setCookie.value)
                   \in Range(accounts'[q.user].tokens)
         /\ (q.op = "logout" /\ success) =>
              /\ q.setCookie.value = EmptyValue
              /\ q.setCookie.maxAge < 0
         /\ (q.op \in {"logout", "refresh"} /\ ~success) =>
              q.setCookie = NoCookie]_vars

\* a refresh that set the cookie to its new token, a logout that cleared
\* it, or a refresh that failed beside a logout that cleared it
C33_Witness ==
  \E r1, r2 \in AReqs :
    /\ areq[r1].op = "refresh" /\ areq[r1].pc = "done"
    /\ areq[r2].op = "logout" /\ areq[r2].pc = "done" /\ areq[r2].resp = OK
    /\ areq[r2].setCookie.maxAge < 0
    /\ \/ areq[r1].resp = OK /\ areq[r1].setCookie.value.key = RefreshSecret
       \/ areq[r1].resp # OK /\ areq[r1].setCookie = NoCookie

\* C34: a createOrder request that meets an unknown item, a null price, a
\* wrong total or a validation failure of the document is answered
\* BadRequest in the step in which it arrives, and that step leaves the
\* orders, the counter, every user's order list and statistics and the
\* catalogue as they are; the request does nothing afterwards: it holds no
\* sequence value and no order or list entry carries its id
RejectedCreate(q) ==
  /\ q.op = "create"
  /\ \/ CheckBasket(products, q.body) \in {"unknown", "notForSale", "badTotal"}
     \/ (CheckBasket(products, q.body) = "ok" /\ ~q.valid)

C34_Step ==
  \A r \in Reqs :
    (req[r].pc = "idle" /\ RejectedCreate(req'[r])) =>
      /\ req'[r].pc = "done" /\ req'[r].resp = BadRequest
      /\ UNCHANGED <<orders, counters, users, products>>

C34_Spent ==
  \A r \in Reqs :
    RejectedCreate(req[r]) =>
      /\ req[r].pc = "done" /\ req[r].resp = BadRequest
      /\ req[r].num = 0
      /\ ~Exists(NewId(r))
      /\ \A u \in Users : NewId(r) \notin Range(users[u].orders)
                            /\ users[u].lastOrder # NewId(r)

C34_RejectedUnchanged == [][C34_Step]_vars /\ []C34_Spent

\* a document that fails validation was rejected while the store holds an
\* order and a counter that a rejection could have touched
C34_Witness ==
  \E r \in Reqs :
    /\ RejectedCreate(req[r]) /\ ~req[r].valid /\ req[r].pc = "done"
    /\ orders # <<>> /\ counters # <<>>
    /\ \E s \in Reqs : s # r /\ req[s].op = "create" /\ req[s].resp = OK

\* C35: whenever no request is in flight (the recomputation a creation
\* leaves behind included), every user's order list holds the ids of the
\* existing orders of that user, each of them once, and nothing else
OwnOrders(u) ==
  {orders[i].id : i \in {k \in 1 .. Len(orders) : orders[k].customer = u}}

C35_ListsExact ==
  Quiescent =>
    \A u \in Users :
      /\ Range(users[u].orders) = OwnOrders(u)
      /\ Len(users[u].orders) = Cardinality(OwnOrders(u))

\* C36: the step in which updateCurrentUser writes the body of a caller
\* who does not hold the admin role leaves that caller without the admin
\* role, whatever the body
C36_OwnUpdate(r) ==
  /\ areq[r].pc = "controller" /\ areq'[r].pc = "done"
  /\ areq[r].op = "updateCurrentUser"
  /\ accounts[areq[r].locals].state = "present"
  /\ "admin" \notin accounts[areq[r].locals].roles

C36_NoEscalation ==
  [][\A r \in AReqs :
       C36_OwnUpdate(r) => "admin" \notin accounts'[areq[r].locals].roles]_vars

\* C37: no step of a login, a refresh, a logout, an order creation or an
\* order deletion changes the stored password of a user; the stored value
\* is the hash of the password the user registered with, and every login
\* with that password gets past the comparison, whatever was saved before
C37_Registered(u, pw) ==
  \/ u = "u1" /\ pw = "pw1"          \* the user the store holds at start
  \/ \E q \in AReqs :
       /\ areq[q].op = "register" /\ areq[q].user = u
       /\ areq[q].upd.password = Plain(pw)
       /\ areq[q].pc \in {"push", "done"}
       /\ areq[q].resp \in {NoResponse, CreatedStatus}

C37_SaveKeepsHash ==
  \A u \in Users :
    (accounts[u].state = "present" /\ accounts'[u].state = "present")
    => accounts'[u].password = accounts[u].password

C37_LoginStep ==
  \A r \in AReqs, u \in Users, pw \in Passwords :
    (Login(r, u, pw) /\ C37_Registered(u, pw)) => areq'[r].pc = "push"

C37_Hashed ==
  \A u \in Users, pw \in Passwords :
    C37_Registered(u, pw) => bcryptCompare(pw, accounts[u].password)

C37_PasswordKept ==
  [][C37_SaveKeepsHash /\ C37_LoginStep]_vars /\ []C37_Hashed

\* a login that arrived after a refresh or logout of the same user had
\* ended and was answered 200, the statistics of that user saved by an
\* order request
C37_Witness ==
  \E r1, r2 \in AReqs, o \in Reqs :
    /\ areq[r1].op \in {"refresh", "logout"} /\ areq[r1].resp = OK
    /\ areq[r2].op = "login" /\ areq[r2].resp = OK /\ areq[r2].solo
    /\ r1 < r2 /\ areq[r1].user = areq[r2].user
    /\ req[o].pc = "done" /\ req[o].resp = OK
    /\ req[o].user = areq[r2].user

\* C38: once every session request has finished, the fingerprint of the
\* token of every login that was answered 200 is in the list of its user
\* (the user still being in the collection), unless that token was
\* presented to a logout or a refresh
C38_Presented(tok) ==
  \E s \in AReqs :
    areq[s].op \in {"logout", "refresh"} /\ areq[s].cookie = tok

C38_SessionsKept ==
  (\A s \in AReqs : areq[s].pc \in {"idle", "done", "rejected"}) =>
    \A r \in AReqs :
      ( /\ areq[r].op = "login" /\ areq[r].resp = OK
        /\ accounts[areq[r].user].state = "present"
        /\ ~C38_Presented(areq[r].setCookie.value) )
      => IssueFingerprint(areq[r].setCookie.value)
           \in Range(accounts[areq[r].user].tokens)

====
